---- MODULE Spec2Model ----
(***************************************************************************)
(* Addressable max-heap backends of keyed_priority_queue: BinaryHeap       *)
(* (editable_binary_heap.rs) and WeakHeap (editable_weak_heap.rs), both    *)
(* implementing the EditableHeap trait (heap_traits.rs).                   *)
(*                                                                         *)
(* Vectors are TLA+ sequences; the code's 0-based index i is element i+1.  *)
(* Option<T> is a sequence of length 0 (None) or 1 (Some); the value in a  *)
(* Some is a tuple: <<owner, priority>> from remove, <<owner, position>>   *)
(* from most_prioritized_idx. A method that returns a plain value has it   *)
(* recorded the same way: <<old priority>> from change_priority,           *)
(* <<old owner>> from change_outer_pos.                                    *)
(* A change_handler is modelled by the sequence of its invocations in call *)
(* order, <<outer_pos, position, data>>: the two arguments and the entries *)
(* as they stand at the moment of the invocation.                          *)
(***************************************************************************)
EXTENDS Integers, Sequences, FiniteSets, TLC

\* ---------------------------------------------------------------- bounds
\* Longest heap when owners are not told apart.
MaxLen == 6
\* Priorities are 0..MaxPriority.
MaxPriority == 1
\* Most entries alive at once when every entry has an owner of its own.
MaxBinaryOwners == 4
MaxWeakOwners == 3
\* Longest heap, and longest from_entries_vec input, when every method is called.
MaxApiLen == 3
\* SpecPair: entries in each of the two heaps run side by side.
MaxPairOwners == 3
\* SpecMax: pushes in a run, each of a priority not pushed before.
MaxPushes == 5
\* SpecTested: entries in the heap.
MaxTestedLen == 5
\* SpecShape: entries in the heap.
MaxShapeLen == 6
\* Longest input of test_pop, with priorities 0..MaxItemPriority.
MaxItems == 5
MaxItemPriority == 2

Priorities == 0..MaxPriority
Backends == {"BinaryHeap", "WeakHeap"}

VARIABLES backend, data, sides, last_positions, call, test, other

vars == <<backend, data, sides, last_positions, call, test, other>>

\* ------------------------------------------------------------ primitives
None == <<>>
Some(x) == <<x>>

HeapEntry(o, p) == [outer_pos |-> o, priority |-> p]
conv_pair(e) == <<e.outer_pos, e.priority>>

\* Vec indexing, 0-based.
At(v, i) == v[i + 1]
\* Vec::swap
swap(v, i, j) == [v EXCEPT ![i + 1] = v[j + 1], ![j + 1] = v[i + 1]]
\* Vec::pop on a non-empty vector: the vector that is left.
pop(v) == SubSeq(v, 1, Len(v) - 1)
\* Vec::swap_remove: the vector that is left (the last element takes slot i).
swap_remove(v, i) ==
    IF i + 1 = Len(v) THEN pop(v)
    ELSE [pop(v) EXCEPT ![i + 1] = v[Len(v)]]

\* vec![elem; n]
RECURSIVE vec(_, _)
vec(elem, n) == IF n = 0 THEN <<>> ELSE Append(vec(elem, n - 1), elem)

SiblingSide_default == "Left"
flip(side) == IF side = "Left" THEN "Right" ELSE "Left"
as_bool(side) == side = "Right"
as_usize(b) == IF b THEN 1 ELSE 0

\* ------------------------------------------------------------ BinaryHeap
\* Mutant: the sift-up also passes a parent of the same priority.
RECURSIVE BinaryHeap_heapify_up_past_equal(_, _, _)
BinaryHeap_heapify_up_past_equal(d, position, log) ==
    IF position > 0
    THEN LET parent_pos == (position - 1) \div 2 IN
         IF At(d, parent_pos).priority > At(d, position).priority
         THEN [data |-> d,
               log |-> Append(log, <<At(d, position).outer_pos, position, d>>)]
         ELSE LET d2 == swap(d, parent_pos, position) IN
              BinaryHeap_heapify_up_past_equal(d2, parent_pos,
                  Append(log, <<At(d2, position).outer_pos, position, d2>>))
    ELSE [data |-> d,
          log |-> Append(log, <<At(d, position).outer_pos, position, d>>)]

RECURSIVE BinaryHeap_heapify_up(_, _, _)
BinaryHeap_heapify_up(d, position, log) ==
    IF position > 0
    THEN LET parent_pos == (position - 1) \div 2 IN
         IF At(d, parent_pos).priority >= At(d, position).priority
         THEN [data |-> d,
               log |-> Append(log, <<At(d, position).outer_pos, position, d>>)]
         ELSE LET d2 == swap(d, parent_pos, position) IN
              BinaryHeap_heapify_up(d2, parent_pos,
                  Append(log, <<At(d2, position).outer_pos, position, d2>>))
    ELSE [data |-> d,
          log |-> Append(log, <<At(d, position).outer_pos, position, d>>)]

\* Mutant: the sift-down never looks at the second child.
BinaryHeap_max_child_idx_first_only(d, position) == position * 2 + 1

\* Mutant: of two children with the same priority the first is taken.
BinaryHeap_max_child_idx_first_on_tie(d, position) ==
    LET child1 == position * 2 + 1
        child2 == child1 + 1
    IN IF child2 < Len(d) /\ At(d, child1).priority < At(d, child2).priority
       THEN child2
       ELSE child1

BinaryHeap_max_child_idx(d, position) ==
    LET child1 == position * 2 + 1
        child2 == child1 + 1
    IN IF child2 < Len(d) /\ At(d, child1).priority <= At(d, child2).priority
       THEN child2
       ELSE child1

RECURSIVE BinaryHeap_heapify_down(_, _, _)
BinaryHeap_heapify_down(d, position, log) ==
    IF position * 2 + 1 >= Len(d)
    THEN [data |-> d,
          log |-> Append(log, <<At(d, position).outer_pos, position, d>>)]
    ELSE LET max_child_idx == BinaryHeap_max_child_idx(d, position) IN
         IF At(d, position).priority >= At(d, max_child_idx).priority
         THEN [data |-> d,
               log |-> Append(log, <<At(d, position).outer_pos, position, d>>)]
         ELSE LET d2 == swap(d, position, max_child_idx) IN
              BinaryHeap_heapify_down(d2, max_child_idx,
                  Append(log, <<At(d2, position).outer_pos, position, d2>>))

\* Mutant: the sift-up stops reporting once the new entry has found its place.
BinaryHeap_push_rest_unreported(d, outer_pos, priority) ==
    LET d1 == Append(d, HeapEntry(outer_pos, priority))
        r == BinaryHeap_heapify_up(d1, Len(d1) - 1, <<>>)
    IN [data |-> r.data, sides |-> <<>>,
        log |-> SubSeq(r.log, 1, Len(r.log) - 1), result |-> None]

BinaryHeap_push(d, outer_pos, priority) ==
    LET d1 == Append(d, HeapEntry(outer_pos, priority))
        r == BinaryHeap_heapify_up(d1, Len(d1) - 1, <<>>)
    IN [data |-> r.data, sides |-> <<>>, log |-> r.log, result |-> None]

\* Mutant: the swap-remove path sifts with a handler that records nothing.
BinaryHeap_remove_unreported(d, position) ==
    IF position >= Len(d)
    THEN [data |-> d, sides |-> <<>>, log |-> <<>>, result |-> None]
    ELSE IF position + 1 = Len(d)
    THEN [data |-> pop(d), sides |-> <<>>, log |-> <<>>,
          result |-> Some(conv_pair(At(d, Len(d) - 1)))]
    ELSE LET r == BinaryHeap_heapify_down(swap_remove(d, position), position, <<>>)
         IN [data |-> r.data, sides |-> <<>>, log |-> <<>>,
             result |-> Some(conv_pair(At(d, position)))]

\* Mutant: the range check is off by one, so position = len takes the last slot.
BinaryHeap_remove_off_by_one(d, position) ==
    IF position > Len(d) \/ Len(d) = 0
    THEN [data |-> d, sides |-> <<>>, log |-> <<>>, result |-> None]
    ELSE IF position + 1 >= Len(d)
    THEN [data |-> pop(d), sides |-> <<>>, log |-> <<>>,
          result |-> Some(conv_pair(At(d, Len(d) - 1)))]
    ELSE LET r == BinaryHeap_heapify_down(swap_remove(d, position), position, <<>>)
         IN [data |-> r.data, sides |-> <<>>, log |-> r.log,
             result |-> Some(conv_pair(At(d, position)))]

\* Mutant: the sift-down of the moved entry does not report where it settled.
BinaryHeap_remove_settled_unreported(d, position) ==
    IF position >= Len(d)
    THEN [data |-> d, sides |-> <<>>, log |-> <<>>, result |-> None]
    ELSE IF position + 1 = Len(d)
    THEN [data |-> pop(d), sides |-> <<>>, log |-> <<>>,
          result |-> Some(conv_pair(At(d, Len(d) - 1)))]
    ELSE LET r == BinaryHeap_heapify_down(swap_remove(d, position), position, <<>>)
         IN [data |-> r.data, sides |-> <<>>,
             log |-> SubSeq(r.log, 1, Len(r.log) - 1),
             result |-> Some(conv_pair(At(d, position)))]

BinaryHeap_remove(d, position) ==
    IF position >= Len(d)
    THEN [data |-> d, sides |-> <<>>, log |-> <<>>, result |-> None]
    ELSE IF position + 1 = Len(d)
    THEN [data |-> pop(d), sides |-> <<>>, log |-> <<>>,
          result |-> Some(conv_pair(At(d, Len(d) - 1)))]
    ELSE LET r == BinaryHeap_heapify_down(swap_remove(d, position), position, <<>>)
         IN [data |-> r.data, sides |-> <<>>, log |-> r.log,
             result |-> Some(conv_pair(At(d, position)))]

\* Mutant: the method returns the priority it has just stored.
BinaryHeap_change_priority_returns_new(d, position, updated) ==
    LET old == At(d, position).priority
        d1 == [d EXCEPT ![position + 1].priority = updated]
        r == IF old < updated THEN BinaryHeap_heapify_up(d1, position, <<>>)
             ELSE IF old = updated THEN [data |-> d1, log |-> <<>>]
             ELSE BinaryHeap_heapify_down(d1, position, <<>>)
    IN [data |-> r.data, sides |-> <<>>, log |-> r.log,
        result |-> Some(<<updated>>)]

\* Mutant: the old priority is returned, the new one is never stored.
BinaryHeap_change_priority_not_stored(d, position, updated) ==
    LET old == At(d, position).priority
    IN [data |-> d, sides |-> <<>>, log |-> <<>>, result |-> Some(<<old>>)]

\* Mutant: the entry is sifted down whichever way its priority changed.
BinaryHeap_change_priority_down_only(d, position, updated) ==
    LET old == At(d, position).priority
        d1 == [d EXCEPT ![position + 1].priority = updated]
        r == IF old = updated THEN [data |-> d1, log |-> <<>>]
             ELSE BinaryHeap_heapify_down(d1, position, <<>>)
    IN [data |-> r.data, sides |-> <<>>, log |-> r.log, result |-> Some(<<old>>)]

BinaryHeap_change_priority(d, position, updated) ==
    LET old == At(d, position).priority
        d1 == [d EXCEPT ![position + 1].priority = updated]
        r == IF old < updated THEN BinaryHeap_heapify_up(d1, position, <<>>)
             ELSE IF old = updated THEN [data |-> d1, log |-> <<>>]
             ELSE BinaryHeap_heapify_down(d1, position, <<>>)
    IN [data |-> r.data, sides |-> <<>>, log |-> r.log, result |-> Some(<<old>>)]

BinaryHeap_change_outer_pos(d, outer_pos, position) ==
    LET old_pos == At(d, position).outer_pos
    IN [data |-> [d EXCEPT ![position + 1].outer_pos = outer_pos],
        sides |-> <<>>, log |-> <<>>, result |-> Some(<<old_pos>>)]

BinaryHeap_clear(d) ==
    [data |-> <<>>, sides |-> <<>>, log |-> <<>>, result |-> None]

\* -------------------------------------------------------------- WeakHeap
RECURSIVE distinguished_ancestor(_, _)
distinguished_ancestor(s, position) ==
    IF position > 0
    THEN LET binary_parent_pos == position \div 2
             is_direct_child ==
                 (position % 2 = 0) = as_bool(At(s, binary_parent_pos))
         IN IF is_direct_child THEN binary_parent_pos
            ELSE distinguished_ancestor(s, binary_parent_pos)
    ELSE 0

\* Mutant: the sibling is taken to be the even child whatever the side bit says.
next_sibling_ignoring_side(s, position) == position * 2

next_sibling(s, position) == position * 2 + as_usize(as_bool(At(s, position)))
\* Mutant: the first child is looked for on the side the next sibling is on.
first_child_on_sibling_side(s, position) ==
    position * 2 + as_usize(as_bool(At(s, position)))

first_child(s, position) == position * 2 + as_usize(~as_bool(At(s, position)))

RECURSIVE WeakHeap_heapify_up(_, _, _, _)
WeakHeap_heapify_up(d, s, position, log) ==
    IF position > 0
    THEN LET parent_pos == distinguished_ancestor(s, position) IN
         IF At(d, parent_pos).priority >= At(d, position).priority
         THEN [data |-> d, sides |-> s,
               log |-> Append(log, <<At(d, position).outer_pos, position, d>>)]
         ELSE LET d2 == swap(d, parent_pos, position)
                  s2 == [s EXCEPT ![position + 1] = flip(@)]
              IN WeakHeap_heapify_up(d2, s2, parent_pos,
                     Append(log, <<At(d2, position).outer_pos, position, d2>>))
    ELSE [data |-> d, sides |-> s,
          log |-> Append(log, <<At(d, position).outer_pos, position, d>>)]

\* The inner loop of heapify_down: follow next_sibling to the last slot of the chain.
RECURSIVE WeakHeap_max_child_idx(_, _, _)
WeakHeap_max_child_idx(s, len, current_child_idx) ==
    LET cand_child_idx == next_sibling(s, current_child_idx) IN
    IF cand_child_idx >= len THEN current_child_idx
    ELSE WeakHeap_max_child_idx(s, len, cand_child_idx)

\* The while loop of heapify_down: walk the chain back up towards position.
RECURSIVE WeakHeap_heapify_down_loop(_, _, _, _, _)
WeakHeap_heapify_down_loop(d, s, position, current_child_idx, log) ==
    IF current_child_idx > position
    THEN IF At(d, position).priority < At(d, current_child_idx).priority
         THEN LET d2 == swap(d, current_child_idx, position)
                  s2 == [s EXCEPT ![current_child_idx + 1] = flip(@)]
              IN WeakHeap_heapify_down_loop(d2, s2, position,
                     current_child_idx \div 2,
                     Append(log, <<At(d2, current_child_idx).outer_pos,
                                   current_child_idx, d2>>))
         ELSE WeakHeap_heapify_down_loop(d, s, position,
                  current_child_idx \div 2, log)
    ELSE [data |-> d, sides |-> s, log |-> log]

\* Mutant: the settled position of the sifted entry is not reported.
WeakHeap_heapify_down_no_final_report(d, s, position, log) ==
    LET first_child_idx == first_child(s, position)
    IN IF first_child_idx < Len(d)
       THEN WeakHeap_heapify_down_loop(d, s, position,
                WeakHeap_max_child_idx(s, Len(d), first_child_idx), log)
       ELSE [data |-> d, sides |-> s, log |-> log]

\* Mutant: the entry is also reported where it stands before it is sifted.
WeakHeap_heapify_down_reports_start(d, s, position, log) ==
    LET first_child_idx == first_child(s, position)
        log1 == Append(log, <<At(d, position).outer_pos, position, d>>)
        r == IF first_child_idx < Len(d)
             THEN WeakHeap_heapify_down_loop(d, s, position,
                      WeakHeap_max_child_idx(s, Len(d), first_child_idx), log1)
             ELSE [data |-> d, sides |-> s, log |-> log1]
    IN [data |-> r.data, sides |-> r.sides,
        log |-> Append(r.log, <<At(r.data, position).outer_pos, position, r.data>>)]

WeakHeap_heapify_down(d, s, position, log) ==
    LET first_child_idx == first_child(s, position)
        r == IF first_child_idx < Len(d)
             THEN WeakHeap_heapify_down_loop(d, s, position,
                      WeakHeap_max_child_idx(s, Len(d), first_child_idx), log)
             ELSE [data |-> d, sides |-> s, log |-> log]
    IN [data |-> r.data, sides |-> r.sides,
        log |-> Append(r.log, <<At(r.data, position).outer_pos, position, r.data>>)]

WeakHeap_push(d, s, outer_pos, priority) ==
    LET new_index == Len(d)
        d1 == Append(d, HeapEntry(outer_pos, priority))
        s1 == Append(s, SiblingSide_default)
        s2 == IF new_index % 2 = 0
              THEN [s1 EXCEPT ![(new_index \div 2) + 1] = SiblingSide_default]
              ELSE s1
        r == WeakHeap_heapify_up(d1, s2, new_index, <<>>)
    IN [data |-> r.data, sides |-> r.sides, log |-> r.log, result |-> None]

\* Mutant: the swap-remove path returns the entry that was moved, not the one removed.
WeakHeap_remove_returns_moved(d, s, position) ==
    IF position >= Len(d)
    THEN [data |-> d, sides |-> s, log |-> <<>>, result |-> None]
    ELSE IF position + 1 = Len(d)
    THEN [data |-> pop(d), sides |-> pop(s), log |-> <<>>,
          result |-> Some(conv_pair(At(d, Len(d) - 1)))]
    ELSE LET r == WeakHeap_heapify_down(swap_remove(d, position), pop(s),
                                        position, <<>>)
         IN [data |-> r.data, sides |-> r.sides, log |-> r.log,
             result |-> Some(conv_pair(At(d, Len(d) - 1)))]

\* Mutant: the last-slot path forgets self.sides.pop().
WeakHeap_remove_keeps_side(d, s, position) ==
    IF position >= Len(d)
    THEN [data |-> d, sides |-> s, log |-> <<>>, result |-> None]
    ELSE IF position + 1 = Len(d)
    THEN [data |-> pop(d), sides |-> s, log |-> <<>>,
          result |-> Some(conv_pair(At(d, Len(d) - 1)))]
    ELSE LET r == WeakHeap_heapify_down(swap_remove(d, position), pop(s),
                                        position, <<>>)
         IN [data |-> r.data, sides |-> r.sides, log |-> r.log,
             result |-> Some(conv_pair(At(d, position)))]

\* Mutant: the swap-remove path forgets self.sides.pop().
WeakHeap_remove_swap_keeps_side(d, s, position) ==
    IF position >= Len(d)
    THEN [data |-> d, sides |-> s, log |-> <<>>, result |-> None]
    ELSE IF position + 1 = Len(d)
    THEN [data |-> pop(d), sides |-> pop(s), log |-> <<>>,
          result |-> Some(conv_pair(At(d, Len(d) - 1)))]
    ELSE LET r == WeakHeap_heapify_down(swap_remove(d, position), s,
                                        position, <<>>)
         IN [data |-> r.data, sides |-> r.sides, log |-> r.log,
             result |-> Some(conv_pair(At(d, position)))]

\* Mutant: the side bits are swap-removed as the entries are.
WeakHeap_remove_swaps_side(d, s, position) ==
    IF position >= Len(d)
    THEN [data |-> d, sides |-> s, log |-> <<>>, result |-> None]
    ELSE IF position + 1 = Len(d)
    THEN [data |-> pop(d), sides |-> pop(s), log |-> <<>>,
          result |-> Some(conv_pair(At(d, Len(d) - 1)))]
    ELSE LET r == WeakHeap_heapify_down(swap_remove(d, position),
                                        swap_remove(s, position), position, <<>>)
         IN [data |-> r.data, sides |-> r.sides, log |-> r.log,
             result |-> Some(conv_pair(At(d, position)))]

WeakHeap_remove(d, s, position) ==
    IF position >= Len(d)
    THEN [data |-> d, sides |-> s, log |-> <<>>, result |-> None]
    ELSE IF position + 1 = Len(d)
    THEN [data |-> pop(d), sides |-> pop(s), log |-> <<>>,
          result |-> Some(conv_pair(At(d, Len(d) - 1)))]
    ELSE LET r == WeakHeap_heapify_down(swap_remove(d, position), pop(s),
                                        position, <<>>)
         IN [data |-> r.data, sides |-> r.sides, log |-> r.log,
             result |-> Some(conv_pair(At(d, position)))]

\* Mutant: a lowered priority is sifted down with a handler that records nothing.
WeakHeap_change_priority_silent_down(d, s, position, updated) ==
    LET old == At(d, position).priority
        d1 == [d EXCEPT ![position + 1].priority = updated]
        r == IF old < updated THEN WeakHeap_heapify_up(d1, s, position, <<>>)
             ELSE IF old = updated THEN [data |-> d1, sides |-> s, log |-> <<>>]
             ELSE [data |-> WeakHeap_heapify_down(d1, s, position, <<>>).data,
                   sides |-> WeakHeap_heapify_down(d1, s, position, <<>>).sides,
                   log |-> <<>>]
    IN [data |-> r.data, sides |-> r.sides, log |-> r.log, result |-> Some(<<old>>)]

\* Mutant: the entry is sifted up whichever way its priority changed.
WeakHeap_change_priority_up_only(d, s, position, updated) ==
    LET old == At(d, position).priority
        d1 == [d EXCEPT ![position + 1].priority = updated]
        r == IF old = updated THEN [data |-> d1, sides |-> s, log |-> <<>>]
             ELSE WeakHeap_heapify_up(d1, s, position, <<>>)
    IN [data |-> r.data, sides |-> r.sides, log |-> r.log, result |-> Some(<<old>>)]

WeakHeap_change_priority(d, s, position, updated) ==
    LET old == At(d, position).priority
        d1 == [d EXCEPT ![position + 1].priority = updated]
        r == IF old < updated THEN WeakHeap_heapify_up(d1, s, position, <<>>)
             ELSE IF old = updated THEN [data |-> d1, sides |-> s, log |-> <<>>]
             ELSE WeakHeap_heapify_down(d1, s, position, <<>>)
    IN [data |-> r.data, sides |-> r.sides, log |-> r.log, result |-> Some(<<old>>)]

\* Mutant: old_pos is read after the slot has been overwritten.
WeakHeap_change_outer_pos_reads_late(d, s, outer_pos, position) ==
    LET d1 == [d EXCEPT ![position + 1].outer_pos = outer_pos]
        old_pos == At(d1, position).outer_pos
    IN [data |-> d1, sides |-> s, log |-> <<>>, result |-> Some(<<old_pos>>)]

WeakHeap_change_outer_pos(d, s, outer_pos, position) ==
    LET old_pos == At(d, position).outer_pos
    IN [data |-> [d EXCEPT ![position + 1].outer_pos = outer_pos],
        sides |-> s, log |-> <<>>, result |-> Some(<<old_pos>>)]

\* Mutant: only the entries are cleared, as self.data.clear() alone would do.
WeakHeap_clear_data_only(d, s) ==
    [data |-> <<>>, sides |-> s, log |-> <<>>, result |-> None]

WeakHeap_clear(d, s) ==
    [data |-> <<>>, sides |-> <<>>, log |-> <<>>, result |-> None]

\* ---------------------------------------------------------- EditableHeap
\* The trait's methods, dispatched on the implementing type.
EditableHeap_push(b, d, s, outer_pos, priority) ==
    IF b = "BinaryHeap" THEN BinaryHeap_push(d, outer_pos, priority)
    ELSE WeakHeap_push(d, s, outer_pos, priority)

EditableHeap_remove(b, d, s, position) ==
    IF b = "BinaryHeap" THEN BinaryHeap_remove(d, position)
    ELSE WeakHeap_remove(d, s, position)

EditableHeap_change_priority(b, d, s, position, updated) ==
    IF b = "BinaryHeap" THEN BinaryHeap_change_priority(d, position, updated)
    ELSE WeakHeap_change_priority(d, s, position, updated)

EditableHeap_change_outer_pos(b, d, s, outer_pos, position) ==
    IF b = "BinaryHeap" THEN BinaryHeap_change_outer_pos(d, outer_pos, position)
    ELSE WeakHeap_change_outer_pos(d, s, outer_pos, position)

EditableHeap_clear(b, d, s) ==
    IF b = "BinaryHeap" THEN BinaryHeap_clear(d) ELSE WeakHeap_clear(d, s)

\* most_prioritized_idx has the same body in both implementations.
most_prioritized_idx(d) ==
    IF Len(d) > 0 THEN Some(<<At(d, 0).outer_pos, 0>>) ELSE None

\* ------------------------------------------------------ from_entries_vec
RECURSIVE BinaryHeap_from_entries_loop(_, _)
BinaryHeap_from_entries_loop(d, n) ==
    \* for pos in (0..n).rev(): heapify_down(pos, |_, _| {})
    IF n = 0 THEN d
    ELSE BinaryHeap_from_entries_loop(
             BinaryHeap_heapify_down(d, n - 1, <<>>).data, n - 1)

\* Mutant: the start of the backward pass is not clamped to the length.
BinaryHeap_heapify_start_unclamped(heap_base) == (Len(heap_base) \div 2) + 2

\* let heapify_start = std::cmp::min(heap_base.len() / 2 + 2, heap_base.len());
BinaryHeap_heapify_start(heap_base) ==
    LET half == (Len(heap_base) \div 2) + 2
    IN IF half < Len(heap_base) THEN half ELSE Len(heap_base)

BinaryHeap_from_entries_vec(heap_base) ==
    [data |-> BinaryHeap_from_entries_loop(heap_base,
                                           BinaryHeap_heapify_start(heap_base)),
     sides |-> <<>>]

RECURSIVE ignorant_distinguished_ancestor(_)
ignorant_distinguished_ancestor(position) ==
    IF position > 0
    THEN IF position % 2 # 0 THEN position \div 2
         ELSE ignorant_distinguished_ancestor(position \div 2)
    ELSE 0

\* Mutant: the entries are swapped but the side bit is left as it was.
WeakHeap_from_entries_step_no_flip(d, s, pos) ==
    LET ancestor_pos == ignorant_distinguished_ancestor(pos)
    IN IF At(d, ancestor_pos).priority < At(d, pos).priority
       THEN [data |-> swap(d, ancestor_pos, pos), sides |-> s]
       ELSE [data |-> d, sides |-> s]

\* Mutant: the side bit flipped is the ancestor's.
WeakHeap_from_entries_step_flips_ancestor(d, s, pos) ==
    LET ancestor_pos == ignorant_distinguished_ancestor(pos)
    IN IF At(d, ancestor_pos).priority < At(d, pos).priority
       THEN [data |-> swap(d, ancestor_pos, pos),
             sides |-> [s EXCEPT ![ancestor_pos + 1] = flip(@)]]
       ELSE [data |-> d, sides |-> s]

\* The body of the loop, for one pos.
WeakHeap_from_entries_step(d, s, pos) ==
    LET ancestor_pos == ignorant_distinguished_ancestor(pos)
    IN IF At(d, ancestor_pos).priority < At(d, pos).priority
       THEN [data |-> swap(d, ancestor_pos, pos),
             sides |-> [s EXCEPT ![pos + 1] = flip(@)]]
       ELSE [data |-> d, sides |-> s]

RECURSIVE WeakHeap_from_entries_loop(_, _, _)
WeakHeap_from_entries_loop(d, s, n) ==
    \* for pos in (1..n).rev()
    IF n <= 1 THEN [data |-> d, sides |-> s]
    ELSE LET r == WeakHeap_from_entries_step(d, s, n - 1)
         IN WeakHeap_from_entries_loop(r.data, r.sides, n - 1)

WeakHeap_from_entries_vec(heap_base) ==
    WeakHeap_from_entries_loop(heap_base,
        vec(SiblingSide_default, Len(heap_base)), Len(heap_base))

EditableHeap_from_entries_vec(b, heap_base) ==
    IF b = "BinaryHeap" THEN BinaryHeap_from_entries_vec(heap_base)
    ELSE WeakHeap_from_entries_vec(heap_base)

\* ------------------------------------------------- the caller's position table
\* tests::test_change_logger keeps a HashMap: last_positions.insert(outer_pos,
\* position) on every change_handler invocation, last_positions.remove(&key) for
\* the owner a remove returned.
insert(table, key, value) ==
    [k \in (DOMAIN table) \cup {key} |-> IF k = key THEN value ELSE table[k]]

RECURSIVE on_pos_change(_, _)
on_pos_change(table, log) ==
    IF log = <<>> THEN table
    ELSE on_pos_change(insert(table, Head(log)[1], Head(log)[2]), Tail(log))

drop_removed(table, result) ==
    IF result = None THEN table
    ELSE [k \in (DOMAIN table) \ {result[1][1]} |-> table[k]]

\* ------------------------------------------------------------- the state
LiveOwners(d) == {d[i].outer_pos : i \in 1..Len(d)}

NoTest == [items |-> <<>>, via |-> "none", popped |-> <<>>]

\* No second heap is run beside this one.
NoOther == [data |-> <<>>, sides |-> <<>>, last_positions |-> <<>>, result |-> None]

NoCall == [op |-> "from_entries_vec", position |-> 0, outer_pos |-> 0,
           priority |-> 0, result |-> None, log |-> <<>>,
           data |-> <<>>, sides |-> <<>>, table |-> <<>>]

\* from_entries_vec(Vec::new()), as every test starts.
Init ==
    /\ backend \in Backends
    /\ data = EditableHeap_from_entries_vec(backend, <<>>).data
    /\ sides = EditableHeap_from_entries_vec(backend, <<>>).sides
    /\ last_positions = <<>>
    /\ call = NoCall
    /\ test = NoTest
    /\ other = NoOther

\* What a call leaves behind: the arguments, the returned value, the handler's
\* invocations, and the storage and the caller's table as they were when the call
\* started.
Called(op, position, outer_pos, priority, r) ==
    [op |-> op, position |-> position, outer_pos |-> outer_pos,
     priority |-> priority, result |-> r.result, log |-> r.log,
     data |-> data, sides |-> sides, table |-> last_positions]

push(outer_pos, priority) ==
    LET r == EditableHeap_push(backend, data, sides, outer_pos, priority) IN
    /\ data' = r.data
    /\ sides' = r.sides
    /\ last_positions' = on_pos_change(last_positions, r.log)
    /\ call' = Called("push", Len(data), outer_pos, priority, r)
    /\ UNCHANGED backend

remove(position) ==
    LET r == EditableHeap_remove(backend, data, sides, position) IN
    /\ data' = r.data
    /\ sides' = r.sides
    /\ last_positions' = drop_removed(on_pos_change(last_positions, r.log), r.result)
    /\ call' = Called("remove", position, 0, 0, r)
    /\ UNCHANGED backend

change_priority(position, updated) ==
    LET r == EditableHeap_change_priority(backend, data, sides, position, updated) IN
    /\ data' = r.data
    /\ sides' = r.sides
    /\ last_positions' = on_pos_change(last_positions, r.log)
    /\ call' = Called("change_priority", position, 0, updated, r)
    /\ UNCHANGED backend

\* ---- Spec: a caller that keeps the owners pairwise distinct ------------
\* Owner references are opaque to the heap, so a new entry takes the smallest
\* reference no live entry holds.
MaxOwners == IF backend = "BinaryHeap" THEN MaxBinaryOwners ELSE MaxWeakOwners

FreshOwner == CHOOSE o \in 0..Len(data) : o \notin LiveOwners(data)

Push ==
    /\ Len(data) < MaxOwners
    /\ \E priority \in Priorities : push(FreshOwner, priority)
    /\ UNCHANGED <<test, other>>

\* Any position: valid ones and the two just past the end.
Remove ==
    /\ \E position \in 0..(Len(data) + 1) : remove(position)
    /\ UNCHANGED <<test, other>>

\* Valid positions only: an out-of-range position fails the method's debug_assert.
ChangePriority ==
    /\ \E position \in 0..(Len(data) - 1), updated \in Priorities :
           change_priority(position, updated)
    /\ UNCHANGED <<test, other>>

Next == Push \/ Remove \/ ChangePriority

Spec == Init /\ [][Next]_vars

\* ---- SpecOrder: priorities only ------------------------------------------
\* The heap never reads outer_pos, so the order of priorities does not depend on
\* it: every push here passes MediatorIndex(0), and heaps grow to MaxLen.
PushAny ==
    /\ Len(data) < MaxLen
    /\ \E priority \in Priorities : push(0, priority)
    /\ UNCHANGED <<test, other>>

MostPrioritizedIdx ==
    /\ call' = Called("most_prioritized_idx", 0, 0, 0,
                      [result |-> most_prioritized_idx(data), log |-> <<>>])
    /\ UNCHANGED <<backend, data, sides, last_positions, test, other>>

NextOrder == PushAny \/ Remove \/ ChangePriority \/ MostPrioritizedIdx

SpecOrder == Init /\ [][NextOrder]_vars

\* ---- SpecPop: tests::test_pop on every short input -----------------------
\* The items get the owners MediatorIndex(0), MediatorIndex(1), ... in input order.
\* The heap is built by from_entries_vec or, as the test does, by one push per
\* item; then remove(HeapIndex(0)) is called until it has returned None.
Inputs == UNION {[1..n -> 0..MaxItemPriority] : n \in 0..MaxItems}

\* The first n items as entries, owned by MediatorIndex(first),
\* MediatorIndex(first + 1), ... in input order.
RECURSIVE enumerate(_, _, _)
enumerate(first, items, n) ==
    IF n = 0 THEN <<>>
    ELSE Append(enumerate(first, items, n - 1), HeapEntry(first + n - 1, items[n]))

entries_of(items) == enumerate(0, items, Len(items))

InitPop ==
    /\ backend \in Backends
    /\ \E items \in Inputs, via \in {"from_entries_vec", "push"} :
          /\ test = [items |-> items, via |-> via, popped |-> <<>>]
          /\ LET built == IF via = "from_entries_vec" THEN entries_of(items) ELSE <<>>
             IN /\ data = EditableHeap_from_entries_vec(backend, built).data
                /\ sides = EditableHeap_from_entries_vec(backend, built).sides
    /\ last_positions = <<>>
    /\ call = NoCall
    /\ other = NoOther

PushItem ==
    /\ test.via = "push"
    /\ test.popped = <<>>
    /\ Len(data) < Len(test.items)
    /\ push(Len(data), test.items[Len(data) + 1])
    /\ UNCHANGED <<test, other>>

PopMax ==
    /\ Len(data) = Len(test.items) - Len(test.popped)
    /\ Len(test.popped) <= Len(test.items)
    /\ remove(0)
    /\ test' = [test EXCEPT !.popped =
                   Append(@, EditableHeap_remove(backend, data, sides, 0).result)]
    /\ UNCHANGED other

NextPop == PushItem \/ PopMax

SpecPop == InitPop /\ [][NextPop]_vars

\* ---- SpecBuild: from_entries_vec, one loop iteration at a time -------------
\* heap_base is any short input, the items owned by MediatorIndex(0),
\* MediatorIndex(1), ...; it is moved into the heap as it is. call.position is
\* the exclusive upper end of the range the loop has still to walk backwards:
\* (0..heapify_start).rev() in the binary heap, (1..heap_len).rev() in the weak
\* heap. The binary heap sifts with |_, _| {} as handler.
InitBuild ==
    /\ backend \in Backends
    /\ \E items \in Inputs :
          /\ test = [items |-> items, via |-> "from_entries_vec", popped |-> <<>>]
          /\ data = entries_of(items)
          /\ sides = IF backend = "WeakHeap"
                     THEN vec(SiblingSide_default, Len(items))
                     ELSE <<>>
          /\ call = [NoCall EXCEPT
                        !.data = entries_of(items),
                        !.position = IF backend = "BinaryHeap"
                                     THEN BinaryHeap_heapify_start(entries_of(items))
                                     ELSE Len(items)]
    /\ last_positions = <<>>
    /\ other = NoOther

\* No iteration is left: from_entries_vec returns the heap.
Built_done == call.position <= (IF backend = "BinaryHeap" THEN 0 ELSE 1)

BuildStep ==
    /\ ~Built_done
    /\ LET pos == call.position - 1
           r == IF backend = "BinaryHeap"
                THEN [data |-> BinaryHeap_heapify_down(data, pos, <<>>).data,
                      sides |-> <<>>]
                ELSE WeakHeap_from_entries_step(data, sides, pos)
       IN /\ data' = r.data
          /\ sides' = r.sides
          /\ call' = [call EXCEPT !.position = pos]
    /\ UNCHANGED <<backend, last_positions, test, other>>

NextBuild == BuildStep

SpecBuild == InitBuild /\ [][NextBuild]_vars

\* ---- SpecApi: every method of the trait, the handler doing nothing --------
\* As tests::test_clear and tests::test_change_change_outer_pos do, the caller
\* passes |_, _| {} as change_handler and keeps no table; the invocations are
\* still recorded in call.log. The heap starts as from_entries_vec leaves it for
\* any short input, the items owned by consecutive indices from 0 or from 1.
Built == UNION {[1..n -> Priorities] : n \in 0..MaxApiLen}

owned_from(first, items) == enumerate(first, items, Len(items))

InitApi ==
    /\ backend \in Backends
    /\ \E items \in Built, first \in {0, 1} :
          /\ data = EditableHeap_from_entries_vec(backend,
                                                  owned_from(first, items)).data
          /\ sides = EditableHeap_from_entries_vec(backend,
                                                   owned_from(first, items)).sides
    /\ last_positions = <<>>
    /\ call = NoCall
    /\ test = NoTest
    /\ other = NoOther

\* A method call that returned r.
returned(op, position, outer_pos, priority, r) ==
    /\ data' = r.data
    /\ sides' = r.sides
    /\ call' = Called(op, position, outer_pos, priority, r)
    /\ UNCHANGED <<backend, last_positions, test, other>>

ApiPush ==
    /\ Len(data) < MaxApiLen
    /\ \E priority \in Priorities :
           returned("push", Len(data), FreshOwner, priority,
                    EditableHeap_push(backend, data, sides, FreshOwner, priority))

ApiRemove ==
    \E position \in 0..(Len(data) + 1) :
        returned("remove", position, 0, 0,
                 EditableHeap_remove(backend, data, sides, position))

ApiChangePriority ==
    \E position \in 0..(Len(data) - 1), updated \in Priorities :
        returned("change_priority", position, 0, updated,
                 EditableHeap_change_priority(backend, data, sides, position, updated))

\* Valid positions only (debug_assert). The caller must keep owners distinct, so
\* the new owner is one that no live entry has; it is a lower index than the old
\* one, as when an owner moves into a freed slot of the caller's table.
ChangeOuterPos ==
    \E position \in 0..(Len(data) - 1) :
        /\ FreshOwner < At(data, position).outer_pos
        /\ returned("change_outer_pos", position, FreshOwner, 0,
                    EditableHeap_change_outer_pos(backend, data, sides,
                                                  FreshOwner, position))

Clear ==
    returned("clear", 0, 0, 0, EditableHeap_clear(backend, data, sides))

NextApi ==
    \/ ApiPush
    \/ ApiRemove
    \/ ApiChangePriority
    \/ ChangeOuterPos
    \/ Clear
    \/ MostPrioritizedIdx

SpecApi == InitApi /\ [][NextApi]_vars

\* ---- SpecPair: a BinaryHeap and a WeakHeap run side by side --------------
\* Both start from from_entries_vec(Vec::new()) and get the same calls. The
\* caller names an owner; each heap is asked at the position its own table
\* (kept as tests::test_change_logger keeps it) gives for that owner. The binary
\* heap is in data/last_positions/call, the weak heap in other.
InitPair ==
    /\ backend = "BinaryHeap"
    /\ data = BinaryHeap_from_entries_vec(<<>>).data
    /\ sides = BinaryHeap_from_entries_vec(<<>>).sides
    /\ last_positions = <<>>
    /\ call = NoCall
    /\ test = NoTest
    /\ other = [data |-> WeakHeap_from_entries_vec(<<>>).data,
                sides |-> WeakHeap_from_entries_vec(<<>>).sides,
                last_positions |-> <<>>, result |-> None]

\* The weak heap after a call that returned r and left the table as given.
beside(r, table) ==
    [data |-> r.data, sides |-> r.sides, last_positions |-> table,
     result |-> r.result]

\* Both heaps after the same call: b is what the binary heap returned, w what the
\* weak heap returned, DropRemoved whether the returned entry leaves the tables.
\* Of the call only the method and the returned value are kept.
side_by_side(op, b, w, DropRemoved) ==
    LET seen(table, r) ==
            IF DropRemoved
            THEN drop_removed(on_pos_change(table, r.log), r.result)
            ELSE on_pos_change(table, r.log)
    IN /\ data' = b.data
       /\ sides' = b.sides
       /\ last_positions' = seen(last_positions, b)
       /\ call' = [NoCall EXCEPT !.op = op, !.result = b.result]
       /\ other' = beside(w, seen(other.last_positions, w))
       /\ UNCHANGED backend

both(op, b, w, DropRemoved) ==
    /\ side_by_side(op, b, w, DropRemoved)
    /\ UNCHANGED test

\* Owners both tables can locate.
Located == (DOMAIN last_positions) \cap (DOMAIN other.last_positions)

PairPush ==
    /\ Len(data) < MaxPairOwners
    /\ \E priority \in Priorities :
           both("push",
                BinaryHeap_push(data, FreshOwner, priority),
                WeakHeap_push(other.data, other.sides, FreshOwner, priority),
                FALSE)

PairRemove ==
    \E owner \in Located :
        both("remove",
             BinaryHeap_remove(data, last_positions[owner]),
             WeakHeap_remove(other.data, other.sides, other.last_positions[owner]),
             TRUE)

PairChangePriority ==
    \E owner \in Located, updated \in Priorities :
        both("change_priority",
             BinaryHeap_change_priority(data, last_positions[owner], updated),
             WeakHeap_change_priority(other.data, other.sides,
                                      other.last_positions[owner], updated),
             FALSE)

NextPair == PairPush \/ PairRemove \/ PairChangePriority

SpecPair == InitPair /\ [][NextPair]_vars

\* ---- SpecMax: the two heaps side by side, with pop-max ---------------------
\* As SpecPair, and the caller also pops the maximum: remove(HeapIndex(0)) on
\* both heaps. No priority is pushed twice in a run: test.items is the set of the
\* priorities pushed so far, and a run has at most MaxPushes pushes, the i-th
\* of them for owner MediatorIndex(i) as in tests::test_pop.
PushedPriorities == 0..(MaxPushes - 1)

InitMax ==
    /\ backend = "BinaryHeap"
    /\ data = BinaryHeap_from_entries_vec(<<>>).data
    /\ sides = BinaryHeap_from_entries_vec(<<>>).sides
    /\ last_positions = <<>>
    /\ call = NoCall
    /\ test = [items |-> {}, via |-> "push", popped |-> <<>>]
    /\ other = [data |-> WeakHeap_from_entries_vec(<<>>).data,
                sides |-> WeakHeap_from_entries_vec(<<>>).sides,
                last_positions |-> <<>>, result |-> None]

MaxPush ==
    \E priority \in PushedPriorities \ test.items :
        LET owner == Cardinality(test.items) IN
        /\ \A i \in 1..Len(data) : data[i].priority # priority
        /\ side_by_side("push",
               BinaryHeap_push(data, owner, priority),
               WeakHeap_push(other.data, other.sides, owner, priority),
               FALSE)
        /\ test' = [test EXCEPT !.items = @ \cup {priority}]

MaxRemove ==
    \E owner \in Located :
        both("remove",
             BinaryHeap_remove(data, last_positions[owner]),
             WeakHeap_remove(other.data, other.sides, other.last_positions[owner]),
             TRUE)

MaxChangePriority ==
    \E owner \in Located, updated \in PushedPriorities :
        /\ \A i \in 1..Len(data) :
               data[i].priority = updated => data[i].outer_pos = owner
        /\ both("change_priority",
             BinaryHeap_change_priority(data, last_positions[owner], updated),
             WeakHeap_change_priority(other.data, other.sides,
                                      other.last_positions[owner], updated),
             FALSE)

\* let popped = heap.remove(HeapIndex(0), ...) on each heap.
MaxPop ==
    both("pop", BinaryHeap_remove(data, 0),
         WeakHeap_remove(other.data, other.sides, 0), TRUE)

NextMax == MaxPush \/ MaxRemove \/ MaxChangePriority \/ MaxPop

SpecMax == InitMax /\ [][NextMax]_vars

\* ---- SpecTested: the calls the tests make --------------------------------
\* tests::test_heap_fill and test_pop push, test_pop and test_change_logger remove
\* at HeapIndex(0) only, test_change_priority changes the priority at a valid
\* position. Every push passes MediatorIndex(0): the heap never reads outer_pos.
TestedPush ==
    /\ Len(data) < MaxTestedLen
    /\ \E priority \in Priorities : push(0, priority)
    /\ UNCHANGED <<test, other>>

TestedPop ==
    /\ remove(0)
    /\ UNCHANGED <<test, other>>

NextTested == TestedPush \/ TestedPop \/ ChangePriority

SpecTested == Init /\ [][NextTested]_vars

\* ---- SpecRange: calls at any position, in range or not -------------------
\* A call that panicked did not return: nothing of the heap was written, the
\* handler was not invoked. Panic is neither None nor any Some.
Panic == Some(<<>>)

panicked(d, s) == [data |-> d, sides |-> s, log |-> <<>>, result |-> Panic]

\* Mutant: a position past the end is answered as remove answers it.
change_priority_absent(b, d, s, position, updated, debug_assertions) ==
    IF position >= Len(d)
    THEN [data |-> d, sides |-> s, log |-> <<>>, result |-> None]
    ELSE EditableHeap_change_priority(b, d, s, position, updated)

\* change_priority from its first line. With debug assertions the debug_assert!
\* panics on a position past the end; without them the next line does, indexing
\* self.data[position.0] for std::mem::replace.
change_priority_from_start(b, d, s, position, updated, debug_assertions) ==
    IF debug_assertions /\ ~(position < Len(d)) THEN panicked(d, s)
    ELSE IF position >= Len(d) THEN panicked(d, s)
    ELSE EditableHeap_change_priority(b, d, s, position, updated)

\* change_outer_pos from its first line: debug_assert!, or else the index in
\* let old_pos = self.data[position.0].outer_pos.
change_outer_pos_from_start(b, d, s, outer_pos, position, debug_assertions) ==
    IF debug_assertions /\ ~(position < Len(d)) THEN panicked(d, s)
    ELSE IF position >= Len(d) THEN panicked(d, s)
    ELSE EditableHeap_change_outer_pos(b, d, s, outer_pos, position)

\* No call follows a panic.
Running == call.result # Panic

RangePush ==
    /\ Running
    /\ ApiPush

RangeRemove ==
    /\ Running
    /\ ApiRemove

RangeChangePriority ==
    /\ Running
    /\ \E position \in 0..(Len(data) + 1), updated \in Priorities,
          debug_assertions \in BOOLEAN :
           returned("change_priority", position, 0, updated,
                    change_priority_from_start(backend, data, sides, position,
                                               updated, debug_assertions))

RangeChangeOuterPos ==
    /\ Running
    /\ \E position \in 0..(Len(data) + 1), debug_assertions \in BOOLEAN :
           /\ position < Len(data) => FreshOwner < At(data, position).outer_pos
           /\ returned("change_outer_pos", position, FreshOwner, 0,
                       change_outer_pos_from_start(backend, data, sides, FreshOwner,
                                                   position, debug_assertions))

NextRange == RangePush \/ RangeRemove \/ RangeChangePriority \/ RangeChangeOuterPos

SpecRange == InitApi /\ [][NextRange]_vars

\* ---- SpecShape: the storage alone ---------------------------------------
\* The heap is built by from_entries_vec from any short vector (the empty one
\* included) and then changed by push, remove and change_priority at any valid
\* position. All entries have owner MediatorIndex(0) and the handler does
\* nothing: only the entries' priorities and the side bits are followed.
RECURSIVE unowned(_, _)
unowned(items, n) ==
    IF n = 0 THEN <<>>
    ELSE Append(unowned(items, n - 1), HeapEntry(0, items[n]))

ShapeInputs == UNION {[1..n -> Priorities] : n \in 0..MaxShapeLen}

InitShape ==
    /\ backend \in Backends
    /\ \E items \in ShapeInputs :
          LET built == EditableHeap_from_entries_vec(backend,
                                                     unowned(items, Len(items)))
          IN /\ data = built.data
             /\ sides = built.sides
    /\ last_positions = <<>>
    /\ call = NoCall
    /\ test = NoTest
    /\ other = NoOther

\* The storage after a call that returned r.
stored_after(r) ==
    /\ data' = r.data
    /\ sides' = r.sides
    /\ UNCHANGED <<backend, last_positions, call, test, other>>

ShapePush ==
    /\ Len(data) < MaxShapeLen
    /\ \E priority \in Priorities :
           stored_after(EditableHeap_push(backend, data, sides, 0, priority))

ShapeRemove ==
    \E position \in 0..(Len(data) - 1) :
        stored_after(EditableHeap_remove(backend, data, sides, position))

ShapeChangePriority ==
    \E position \in 0..(Len(data) - 1), updated \in Priorities :
        stored_after(EditableHeap_change_priority(backend, data, sides,
                                                  position, updated))

NextShape == ShapePush \/ ShapeRemove \/ ShapeChangePriority

SpecShape == InitShape /\ [][NextShape]_vars

\* ======================================================================
\* Heap order
\* ======================================================================
\* tests::is_valid_heap
is_valid_heap(d) ==
    \A i \in 1..(Len(d) - 1) :
        ~(At(d, (i - 1) \div 2).priority < At(d, i).priority)

\* Every slot i >= 1 is dominated by its distinguished ancestor, found from the
\* side-bit table as heapify_up finds it.
is_weak_heap(d, s) ==
    \A i \in 1..(Len(d) - 1) :
        At(d, distinguished_ancestor(s, i)).priority >= At(d, i).priority

\* C1: binary heap, after any sequence of push, remove at any valid position and
\* change_priority at any valid position, every non-root slot i has
\* data[(i-1)/2].priority >= data[i].priority.
C1_BinaryHeapOrder ==
    backend = "BinaryHeap" => is_valid_heap(data)

\* C2: weak heap, after any sequence of push, remove at any valid position and
\* change_priority at any valid position, every slot i >= 1 has
\* data[d(i)].priority >= data[i].priority for its distinguished ancestor d(i).
C2_WeakHeapOrder ==
    backend = "WeakHeap" => is_weak_heap(data, sides)

\* C3: in both backends most_prioritized_idx returns None exactly when the heap
\* is empty, and otherwise (owner of slot 0, position 0) where slot 0 holds a
\* priority >= that of every entry in the heap; the call changes nothing.
C3_PeekIsMaximum ==
    call.op = "most_prioritized_idx" =>
        /\ data = call.data
        /\ sides = call.sides
        /\ (call.result = None) <=> (Len(data) = 0)
        /\ Len(data) > 0 =>
              /\ call.result = Some(<<At(data, 0).outer_pos, 0>>)
              /\ \A i \in 0..(Len(data) - 1) :
                     At(data, 0).priority >= At(data, i).priority

\* ======================================================================
\* The position table at operation boundaries
\* ======================================================================
\* The table has one record per live entry, and the record of every live owner
\* names the slot that holds it.
TableInSync ==
    /\ DOMAIN last_positions = LiveOwners(data)
    /\ Cardinality(DOMAIN last_positions) = Len(data)
    /\ \A o \in DOMAIN last_positions :
           /\ last_positions[o] \in 0..(Len(data) - 1)
           /\ At(data, last_positions[o]).outer_pos = o

\* A remove below the last slot whose sift-down swapped at least once.
RemoveSifted ==
    /\ call.op = "remove"
    /\ call.position + 1 < Len(call.data)
    /\ Len(call.log) >= 2

\* A remove strictly between the root and the last slot.
RemoveInterior ==
    /\ call.op = "remove"
    /\ 0 < call.position
    /\ call.position + 1 < Len(call.data)

\* C4: binary heap with pairwise distinct owners: after each completed push,
\* remove or change_priority the table kept by the change_handler has exactly one
\* record per live entry and data[table[o]].outer_pos = o for every live owner o.
C4_BinaryTableInSync ==
    backend = "BinaryHeap" => TableInSync

C4_Witness ==
    /\ backend = "BinaryHeap"
    /\ RemoveSifted
    /\ Len(data) = 3
    /\ TableInSync

\* C5: weak heap with pairwise distinct owners: after each completed push, remove
\* or change_priority the table kept by the change_handler has exactly one record
\* per live entry and data[table[o]].outer_pos = o for every live owner o.
C5_WeakTableInSync ==
    backend = "WeakHeap" => TableInSync

C5_Witness ==
    /\ backend = "WeakHeap"
    /\ RemoveSifted
    /\ Len(data) = 2
    /\ TableInSync

\* ======================================================================
\* Total order preservation (SpecPop)
\* ======================================================================
RECURSIVE seq_max(_)
seq_max(s) ==
    IF Len(s) = 1 THEN s[1]
    ELSE LET m == seq_max(Tail(s)) IN IF s[1] >= m THEN s[1] ELSE m

RECURSIVE without_first(_, _)
without_first(s, x) ==
    IF s[1] = x THEN Tail(s) ELSE <<s[1]>> \o without_first(Tail(s), x)

\* The input in descending order.
RECURSIVE sorted_desc(_)
sorted_desc(s) ==
    IF s = <<>> THEN <<>>
    ELSE <<seq_max(s)>> \o sorted_desc(without_first(s, seq_max(s)))

\* The k-th pop returned the k-th largest priority, with an owner that was
\* inserted with that priority and that no earlier pop returned; the pop after
\* the last element returned None.
PopsDescending ==
    \A k \in 1..Len(test.popped) :
        IF k <= Len(test.items)
        THEN /\ test.popped[k] # None
             /\ test.popped[k][1][2] = sorted_desc(test.items)[k]
             /\ test.items[test.popped[k][1][1] + 1] = test.popped[k][1][2]
             /\ \A j \in 1..(k - 1) : test.popped[j][1][1] # test.popped[k][1][1]
        ELSE test.popped[k] = None

AllPopped(via) ==
    /\ test.via = via
    /\ Len(test.popped) = Len(test.items) + 1
    /\ Len(test.items) >= 5
    /\ test.items # sorted_desc(test.items)

\* C6: binary heap built by from_entries_vec or by pushes, then remove(0)
\* repeatedly: the priorities come out in descending sorted order of the input,
\* each with an owner inserted with that priority, and the call after the last
\* element returns None.
C6_BinaryPopsDescending ==
    backend = "BinaryHeap" => PopsDescending

C6_Witness ==
    /\ backend = "BinaryHeap"
    /\ AllPopped("from_entries_vec")
    /\ PopsDescending

\* C7: weak heap built by from_entries_vec or by pushes, then remove(0)
\* repeatedly: the priorities come out in descending sorted order of the input,
\* each with an owner inserted with that priority, and the call after the last
\* element returns None.
C7_WeakPopsDescending ==
    backend = "WeakHeap" => PopsDescending

C7_Witness ==
    /\ backend = "WeakHeap"
    /\ AllPopped("from_entries_vec")
    /\ PopsDescending

\* ======================================================================
\* remove: returned value and frame
\* ======================================================================
count(v, e) == Cardinality({i \in 1..Len(v) : v[i] = e})

\* Slots the change_handler was invoked for during the last call.
Reported == {call.log[i][2] : i \in 1..Len(call.log)}

\* C8: remove(position) with position < length returns the (owner, priority)
\* stored at position when the call started, shortens the heap by exactly one and
\* leaves the multiset of the other pairs as it was; nothing is shifted: a slot
\* the sift-down did not report holds what it held, and the vacated slot, when
\* below the last one and not sifted, holds the former last entry.
C8_RemoveReturnsEntry ==
    (call.op = "remove" /\ call.position < Len(call.data)) =>
        LET removed == At(call.data, call.position) IN
        /\ call.result = Some(<<removed.outer_pos, removed.priority>>)
        /\ Len(data) = Len(call.data) - 1
        /\ \A i \in 1..Len(call.data) :
               count(data, call.data[i]) =
                   count(call.data, call.data[i])
                       - (IF call.data[i] = removed THEN 1 ELSE 0)
        /\ \A i \in 0..(Len(data) - 1) :
               (i \notin Reported /\ i # call.position) =>
                   At(data, i) = At(call.data, i)
        /\ (call.position < Len(data) /\ Len(call.log) <= 1) =>
               At(data, call.position) = At(call.data, Len(call.data) - 1)

C8_Witness ==
    /\ RemoveInterior
    /\ backend = "WeakHeap"
    /\ call.result = Some(conv_pair(At(call.data, call.position)))
    /\ Len(data) = 2

\* C9: remove(position) with position >= length returns None, never invokes the
\* callback and leaves the entries (and the weak heap's side bits) unchanged.
C9_RemoveOutOfRange ==
    (call.op = "remove" /\ call.position >= Len(call.data)) =>
        /\ call.result = None
        /\ call.log = <<>>
        /\ data = call.data
        /\ sides = call.sides

C9_Witness ==
    /\ call.op = "remove"
    /\ call.position = Len(call.data)
    /\ Len(call.data) >= 2
    /\ call.result = None
    /\ data = call.data

\* C10: remove(position) with position = length-1 returns the last entry without
\* rebalancing and without invoking the callback: slots 0..length-2 hold the same
\* entries, and in the weak heap the same side bits, as before.
C10_RemoveLast ==
    (call.op = "remove" /\ call.position + 1 = Len(call.data)) =>
        /\ call.result = Some(conv_pair(At(call.data, Len(call.data) - 1)))
        /\ call.log = <<>>
        /\ Len(data) = Len(call.data) - 1
        /\ \A i \in 0..(Len(data) - 1) : At(data, i) = At(call.data, i)
        /\ backend = "WeakHeap" =>
              /\ Len(sides) = Len(call.sides) - 1
              /\ \A i \in 0..(Len(sides) - 1) : At(sides, i) = At(call.sides, i)

C10_Witness ==
    /\ call.op = "remove"
    /\ call.position + 1 = Len(call.data)
    /\ Len(call.data) = 3
    /\ backend = "WeakHeap"
    /\ \E i \in 1..Len(sides) : sides[i] = "Right"
    /\ call.log = <<>>

\* ======================================================================
\* change_priority: returned value, equal priority, notifications
\* ======================================================================
\* C11: change_priority(position, p) at a valid position returns the priority
\* stored at position when the call started; when p equals it, the entries and
\* the weak heap's side bits are the same before and after the call, and the
\* same call made again returns the same value and again changes nothing.
C11_ChangePriorityReturnsOld ==
    call.op = "change_priority" =>
        LET old == At(call.data, call.position).priority
            again == EditableHeap_change_priority(backend, data, sides,
                                                  call.position, call.priority)
        IN /\ call.result = Some(<<old>>)
           /\ call.priority = old =>
                 /\ data = call.data
                 /\ sides = call.sides
                 /\ again.result = call.result
                 /\ again.data = data
                 /\ again.sides = sides

C11_Witness ==
    /\ call.op = "change_priority"
    /\ backend = "WeakHeap"
    /\ Len(data) = 3
    /\ call.position = 1
    /\ call.priority = At(call.data, call.position).priority
    /\ call.result = Some(<<call.priority>>)
    /\ \E i \in 1..Len(sides) : sides[i] = "Right"
    /\ data = call.data

\* Some invocation of the last call reported owner at the slot that holds it now.
ReportedAtRest(owner) ==
    \E i \in 1..Len(call.log) :
        /\ call.log[i][1] = owner
        /\ call.log[i][2] < Len(data)
        /\ At(data, call.log[i][2]).outer_pos = owner

\* C12 as stated: every change_priority(position, p) at a valid position, for p
\* greater than, smaller than or equal to the stored priority, invokes the
\* callback at least once, and some invocation reports the owner of the
\* operated-on entry at the position where it rests when the call returns.
C12_ChangePriorityAlwaysReports ==
    call.op = "change_priority" =>
        /\ Len(call.log) >= 1
        /\ ReportedAtRest(At(call.data, call.position).outer_pos)

\* C12 as amended: for p different from the stored priority the callback is
\* invoked at least once and some invocation reports the owner of the
\* operated-on entry where it rests at return, even when it did not move; for p
\* equal to the stored priority the callback is not invoked at all and the entry
\* stays in its slot.
C12_ChangePriorityReports ==
    call.op = "change_priority" =>
        LET operated == At(call.data, call.position) IN
        IF call.priority # operated.priority
        THEN /\ Len(call.log) >= 1
             /\ ReportedAtRest(operated.outer_pos)
        ELSE /\ call.log = <<>>
             /\ At(data, call.position) = operated
             /\ last_positions = call.table

C12_Witness ==
    /\ call.op = "change_priority"
    /\ call.priority < At(call.data, call.position).priority
    /\ Len(call.data) = 3
    /\ Len(call.log) = 1
    /\ call.log[1][1] = At(call.data, call.position).outer_pos
    /\ call.log[1][2] = call.position
    /\ At(data, call.position).outer_pos = call.log[1][1]

\* ======================================================================
\* push: notifications
\* ======================================================================
\* Slots that existed before the last call and hold another entry after it. A
\* sift-up swap puts the sifted entry into one such slot, so after a push their
\* number is the number of swaps.
Displaced == {i \in 0..(Len(call.data) - 1) : At(data, i) # At(call.data, i)}

\* The slot that held owner when the last call started.
SlotBefore(owner) ==
    CHOOSE i \in 0..(Len(call.data) - 1) : At(call.data, i).outer_pos = owner

\* C13: push(owner, priority) invokes the callback (number of sift-up swaps) + 1
\* times: once per swap, reporting the displaced former ancestor at the slot it
\* moved down to, and a last time reporting the pushed owner at its final
\* position; when the new entry does not move, exactly once with
\* (owner, old length).
C13_PushReports ==
    call.op = "push" =>
        LET n == Len(call.log) IN
        /\ n = Cardinality(Displaced) + 1
        /\ \A k \in 1..(n - 1) :
               /\ call.log[k][1] \in LiveOwners(call.data)
               /\ SlotBefore(call.log[k][1]) < call.log[k][2]
               /\ At(data, call.log[k][2]).outer_pos = call.log[k][1]
        /\ call.log[n][1] = call.outer_pos
        /\ At(data, call.log[n][2]).outer_pos = call.outer_pos
        /\ Displaced = {} =>
               /\ call.log[1][1] = call.outer_pos
               /\ call.log[1][2] = Len(call.data)

C13_Witness ==
    /\ call.op = "push"
    /\ Len(call.log) = 3
    /\ Cardinality(Displaced) = 2
    /\ call.log[3][1] = call.outer_pos
    /\ call.log[3][2] = 0

\* ======================================================================
\* The position table at each invocation of the change_handler
\* ======================================================================
\* The caller's table right after the k-th invocation of the last call.
TableAfter(k) == on_pos_change(call.table, SubSeq(call.log, 1, k))

\* The live owners whose record, right after the k-th invocation, names a slot
\* that does not hold them at that moment.
Stale(k) ==
    LET table == TableAfter(k)
        d == call.log[k][3]
    IN {o \in LiveOwners(d) \cap DOMAIN table :
           \/ table[o] >= Len(d)
           \/ At(d, table[o]).outer_pos # o}

\* C14 as stated: with table[owner] = position written on each invocation,
\* immediately after every single invocation, also in the middle of a
\* multi-swap push, remove or change_priority, every live owner with a recorded
\* position p has data[p].owner = that owner.
C14_TableInSyncAtEveryCallback ==
    \A k \in 1..Len(call.log) : Stale(k) = {}

\* C14 as amended: immediately after the last invocation of a push, remove or
\* change_priority every live owner with a recorded position p has
\* data[p].owner = that owner; after an earlier invocation this holds for every
\* such owner except at most one, the entry still being sifted, which a later
\* invocation of the same call reports.
C14_TableInSyncAtLastCallback ==
    \A k \in 1..Len(call.log) :
        /\ Cardinality(Stale(k)) <= 1
        /\ \A o \in Stale(k) : \E j \in (k + 1)..Len(call.log) : call.log[j][1] = o
        /\ k = Len(call.log) => /\ Stale(k) = {}
                                /\ call.log[k][3] = data

C14_Witness ==
    /\ call.op = "remove"
    /\ Len(call.log) = 2
    /\ Cardinality(Stale(1)) = 1
    /\ Stale(2) = {}
    /\ Len(data) = 3

\* ======================================================================
\* change_outer_pos, clear, the side-bit table (SpecApi)
\* ======================================================================
\* C15: change_outer_pos(new_owner, position) at a valid position returns the
\* owner stored at that slot when the call started and stores new_owner there;
\* the priority of the slot, the length, every other slot and the weak heap's
\* side bits are unchanged, and no callback is involved.
C15_ChangeOuterPosFrame ==
    call.op = "change_outer_pos" =>
        /\ call.result = Some(<<At(call.data, call.position).outer_pos>>)
        /\ At(data, call.position).outer_pos = call.outer_pos
        /\ At(data, call.position).priority = At(call.data, call.position).priority
        /\ Len(data) = Len(call.data)
        /\ \A i \in 0..(Len(data) - 1) :
               i # call.position => At(data, i) = At(call.data, i)
        /\ sides = call.sides
        /\ call.log = <<>>
        /\ last_positions = call.table

C15_Witness ==
    /\ call.op = "change_outer_pos"
    /\ backend = "WeakHeap"
    /\ Len(data) = 3
    /\ call.position = 1
    /\ \E i \in 1..Len(sides) : sides[i] = "Right"
    /\ call.outer_pos # At(call.data, call.position).outer_pos
    /\ At(data, call.position).outer_pos = call.outer_pos
    /\ call.result = Some(<<At(call.data, call.position).outer_pos>>)

\* C16: clear() in any reachable state, empty or not, leaves length 0 (and in the
\* weak heap an empty side-bit table); in the state it leaves, remove at any
\* position and most_prioritized_idx return None; on any empty heap, also one
\* never populated, remove and most_prioritized_idx return None.
C16_ClearEmpties ==
    /\ call.op = "clear" =>
          /\ Len(data) = 0
          /\ sides = <<>>
          /\ most_prioritized_idx(data) = None
          /\ \A position \in 0..MaxApiLen :
                 EditableHeap_remove(backend, data, sides, position).result = None
    /\ (call.op = "remove" /\ Len(call.data) = 0) =>
          /\ call.result = None
          /\ Len(data) = 0
    /\ (call.op = "most_prioritized_idx" /\ Len(call.data) = 0) =>
          call.result = None

C16_Witness ==
    /\ call.op = "clear"
    /\ backend = "WeakHeap"
    /\ Len(call.data) = 3
    /\ \E i \in 1..Len(call.sides) : call.sides[i] = "Right"
    /\ data = <<>>
    /\ sides = <<>>

\* C17: weak heap: in every state reachable through from_entries_vec, push,
\* remove (out of range, last slot, swap-remove), change_priority,
\* change_outer_pos and clear, the side-bit table is exactly as long as the entry
\* array.
C17_SidesAsLongAsData ==
    backend = "WeakHeap" => Len(sides) = Len(data)

C17_Witness ==
    /\ backend = "WeakHeap"
    /\ RemoveInterior
    /\ Len(call.data) = 3
    /\ Len(call.sides) = 3
    /\ Len(data) = 2
    /\ Len(sides) = 2

\* ======================================================================
\* from_entries_vec (SpecBuild)
\* ======================================================================
\* The entries of d are those of heap_base, each as often.
is_permutation(d, heap_base) ==
    /\ Len(d) = Len(heap_base)
    /\ \A i \in 1..Len(heap_base) : count(d, heap_base[i]) = count(heap_base, heap_base[i])

\* C18: binary heap: for every input vector, lengths 0, 1 and 2 included,
\* from_entries_vec returns a heap whose entries are a permutation of the input
\* with data[(i-1)/2].priority >= data[i].priority for every non-root slot i;
\* the start min(n/2+2, n) never has heapify_down called on a position >= n, and
\* no callback reaches the caller.
C18_BinaryBuild ==
    backend = "BinaryHeap" =>
        /\ call.position <= Len(data)
        /\ call.log = <<>>
        /\ last_positions = <<>>
        /\ is_permutation(data, call.data)
        /\ Built_done =>
              /\ is_valid_heap(data)
              /\ data = BinaryHeap_from_entries_vec(call.data).data

C18_Witness ==
    /\ backend = "BinaryHeap"
    /\ Built_done
    /\ Len(data) = 5
    /\ ~is_valid_heap(call.data)
    /\ is_valid_heap(data)
    /\ At(data, 0) = At(call.data, 4)

\* C19: weak heap: for every input vector, from_entries_vec returns a heap whose
\* entries are a permutation of the input with data[d(i)].priority >=
\* data[i].priority for every slot i >= 1, d(i) being the distinguished ancestor
\* found from the side bits as they stand after the build; at each step of the
\* build the ancestor computed without the side bits is the distinguished
\* ancestor computed from the side bits of that moment.
C19_WeakBuild ==
    backend = "WeakHeap" =>
        /\ Len(sides) = Len(data)
        /\ is_permutation(data, call.data)
        /\ ~Built_done =>
              ignorant_distinguished_ancestor(call.position - 1)
                  = distinguished_ancestor(sides, call.position - 1)
        /\ Built_done =>
              /\ is_weak_heap(data, sides)
              /\ data = WeakHeap_from_entries_vec(call.data).data
              /\ sides = WeakHeap_from_entries_vec(call.data).sides

C19_Witness ==
    /\ backend = "WeakHeap"
    /\ Built_done
    /\ Len(data) = 5
    /\ is_weak_heap(data, sides)
    /\ Cardinality({i \in 1..Len(sides) : sides[i] = "Right"}) >= 2
    /\ At(data, 0) = At(call.data, 4)

\* ======================================================================
\* C20  Cross-backend equivalence
\* ======================================================================
\* The multiset of entries a vector stores: how many slots hold each
\* (outer_pos, priority) entry.
stored(d) ==
    [e \in {d[i] : i \in 1..Len(d)} |-> Cardinality({i \in 1..Len(d) : d[i] = e})]

\* C20: a binary heap and a weak heap are run side by side from empty with the
\* same pushes, removes of a live owner and priority changes of a live owner,
\* each heap finding the owner through its own table. After every step both
\* store the same multiset of (owner, priority) entries and the call returned the
\* same value from both; every stored owner is in both tables, so no call by
\* owner is left out.
C20_BackendsEquivalent ==
    /\ stored(data) = stored(other.data)
    /\ call.result = other.result
    /\ DOMAIN last_positions = LiveOwners(data)
    /\ DOMAIN other.last_positions = LiveOwners(other.data)

\* C20 witness: after a remove or a change_priority by owner that returned a
\* value, the two heaps hold their entries in different array orders.
C20_Witness ==
    /\ call.op \in {"remove", "change_priority"}
    /\ call.result # None
    /\ other.result = call.result
    /\ Len(data) >= 2
    /\ data # other.data
    /\ stored(data) = stored(other.data)

\* ======================================================================
\* C21  Backend interchangeability for the maximum
\* ======================================================================
\* C21: a binary heap and a weak heap are run side by side from empty with the
\* same pushes (no priority pushed twice), removes of a live owner, priority
\* changes of a live owner and pop-max calls. Every pop-max returns the same
\* (owner, priority) pair from both heaps.
C21_PopMaxSame ==
    call.op = "pop" => call.result = other.result

\* ======================================================================
\* C22, C23  Heap order under the calls the tests make
\* ======================================================================
\* tests::is_valid_weak_heap: every slot that is the first child of its binary
\* parent is dominated by that parent.
is_valid_weak_heap(d, s) ==
    \A i \in 1..(Len(d) - 1) :
        LET heap_parent_ind == i \div 2 IN
        first_child(s, heap_parent_ind) = i
            => ~(At(d, heap_parent_ind).priority < At(d, i).priority)

\* C22: binary heap from empty, after any sequence of push, remove at position 0
\* only and change_priority at any valid position, every non-root slot i has
\* data[(i-1)/2].priority >= data[i].priority.
C22_BinaryOrderWhenTested ==
    backend = "BinaryHeap" => is_valid_heap(data)

\* C22 witness: a binary heap of at least four entries whose root was removed,
\* the entry moved into slot 0 having been sifted down past a child.
C22_Witness ==
    /\ backend = "BinaryHeap"
    /\ call.op = "remove"
    /\ call.position = 0
    /\ Len(call.data) >= 4
    /\ Len(call.log) >= 2
    /\ is_valid_heap(data)

\* C23: weak heap from empty, after any sequence of push, remove at position 0
\* only and change_priority at any valid position, every slot i >= 1 has
\* data[d(i)].priority >= data[i].priority for its distinguished ancestor d(i),
\* and so passes the tests' check on first children.
C23_WeakOrderWhenTested ==
    backend = "WeakHeap" =>
        /\ is_weak_heap(data, sides)
        /\ is_valid_weak_heap(data, sides)

\* C23 witness: a weak heap of at least four entries in which a priority was
\* lowered at a slot other than the root and the entry was sifted down.
C23_Witness ==
    /\ backend = "WeakHeap"
    /\ call.op = "change_priority"
    /\ call.position >= 1
    /\ Len(data) >= 4
    /\ At(call.data, call.position).priority > call.priority
    /\ Len(call.log) >= 2
    /\ is_weak_heap(data, sides)

\* ======================================================================
\* C24  Binary heap sift-down tie-break
\* ======================================================================
\* The sift from_entries_vec is about to run: heapify_down at the next position
\* of its loop, on the vector as it stands.
next_sift == BinaryHeap_heapify_down(data, call.position - 1, <<>>)

\* Level k of a sift whose handler invocations are log, started on d0: the vector
\* before the level, the slot of the sifted entry, the vector after the level,
\* and whether the level swapped (every invocation but the last follows a swap).
level_before(d0, log, k) == IF k = 1 THEN d0 ELSE log[k - 1][3]
level_slot(log, k) == log[k][2]
level_after(log, k) == log[k][3]
level_swapped(log, k) == k < Len(log)

\* Where slots 2i+1 and 2i+2 both exist with the same priority: the level swaps
\* with slot 2i+2 if that priority exceeds the sifted entry's, else not at all.
tie_break(d0, log) ==
    \A k \in 1..Len(log) :
        LET before == level_before(d0, log, k)
            i == level_slot(log, k)
        IN (2 * i + 2 < Len(before)
              /\ At(before, 2 * i + 1).priority = At(before, 2 * i + 2).priority)
           => IF At(before, 2 * i + 2).priority > At(before, i).priority
              THEN /\ level_swapped(log, k)
                   /\ level_after(log, k) = swap(before, i, 2 * i + 2)
                   /\ level_slot(log, k + 1) = 2 * i + 2
              ELSE /\ ~level_swapped(log, k)
                   /\ level_after(log, k) = before

\* A level that swaps does so with a child of strictly larger priority.
strict_swaps(d0, log) ==
    \A k \in 1..(Len(log) - 1) :
        LET before == level_before(d0, log, k)
        IN At(before, level_slot(log, k + 1)).priority
               > At(before, level_slot(log, k)).priority

\* C24: at each level of heapify_down where both children 2i+1 and 2i+2 exist
\* with equal priority, the entry is swapped with slot 2i+2 if that priority
\* strictly exceeds its own, slot 2i+1 being left as it was, and otherwise is not
\* swapped; no level swaps the entry with a child of its own priority.
C24_SiftDownTieBreak ==
    (backend = "BinaryHeap" /\ ~Built_done) =>
        /\ tie_break(data, next_sift.log)
        /\ strict_swaps(data, next_sift.log)

\* C24 witness: the sift about to run from slot 0 first goes to slot 1, finds
\* there slots 3 and 4 with the same, larger priority, and swaps with slot 4,
\* leaving slot 3 as it was.
C24_Witness ==
    /\ backend = "BinaryHeap"
    /\ ~Built_done
    /\ call.position - 1 = 0
    /\ Len(data) = 5
    /\ Len(next_sift.log) = 3
    /\ level_slot(next_sift.log, 2) = 1
    /\ level_slot(next_sift.log, 3) = 4
    /\ At(level_before(data, next_sift.log, 2), 3).priority
           = At(level_before(data, next_sift.log, 2), 4).priority
    /\ At(next_sift.data, 3) = At(level_before(data, next_sift.log, 2), 3)

\* ======================================================================
\* C25  Weak heap side-bit frame
\* ======================================================================
\* The vector the last call handed to its sift: push has appended the entry,
\* remove has swap-removed one, change_priority has stored the priority.
sifted_data ==
    IF call.op = "push"
    THEN Append(call.data, HeapEntry(call.outer_pos, call.priority))
    ELSE IF call.op = "remove" THEN swap_remove(call.data, call.position)
    ELSE [call.data EXCEPT ![call.position + 1].priority = call.priority]

\* The slots whose entry a sift swap of the last call moved down: every handler
\* invocation but the last reports one.
SwappedSlots == {call.log[k][2] : k \in 1..(Len(call.log) - 1)}

\* The side bits as they stood before swap k of the last call, from the side
\* bits after the call: the swaps from k on each flipped the bit of their slot.
sides_before_swap(k) ==
    [i \in 1..Len(sides) |->
        IF Cardinality({j \in k..(Len(call.log) - 1) : call.log[j][2] = i - 1}) % 2 = 1
        THEN flip(sides[i]) ELSE sides[i]]

\* Every sift swap of the last call exchanged a slot with its distinguished
\* ancestor.
swaps_with_ancestor ==
    \A k \in 1..(Len(call.log) - 1) :
        LET slot == call.log[k][2]
        IN level_after(call.log, k)
               = swap(level_before(sifted_data, call.log, k),
                      distinguished_ancestor(sides_before_swap(k), slot), slot)

SideBitCalls == {"push", "remove", "change_priority", "change_outer_pos"}

Surviving == 0..((IF Len(sides) < Len(call.sides) THEN Len(sides)
                  ELSE Len(call.sides)) - 1)

\* C25 as stated: across push, remove, change_priority and change_outer_pos the
\* side bit of a slot that exists before and after the call changes only if the
\* entry in that slot was swapped with that of its distinguished ancestor.
C25_SideBitsChangeOnlyBySwap ==
    (backend = "WeakHeap" /\ call.op \in SideBitCalls) =>
        /\ swaps_with_ancestor
        /\ \A i \in Surviving :
               At(sides, i) # At(call.sides, i) => i \in SwappedSlots

\* C25 amended: the side bit of a surviving slot changes only if the entry in
\* that slot was swapped with that of its distinguished ancestor, or the call is
\* a push to an even index 2p and the slot is p, which had no child: push resets
\* that side bit to Left before it sifts, and the sift does not touch it.
C25_SideBitsChangeBySwapOrPushReset ==
    (backend = "WeakHeap" /\ call.op \in SideBitCalls) =>
        /\ swaps_with_ancestor
        /\ \A i \in Surviving :
               At(sides, i) # At(call.sides, i) =>
                   \/ i \in SwappedSlots
                   \/ /\ call.op = "push"
                      /\ Len(call.data) = 2 * i
                      /\ At(sides, i) = SiblingSide_default
        /\ (call.op = "push" /\ Len(call.data) % 2 = 0 /\ Len(call.data) > 0)
               => /\ At(sides, Len(call.data) \div 2) = SiblingSide_default
                  /\ (Len(call.data) \div 2) \notin SwappedSlots

\* C25 witness: a push to index 2 found the side bit of slot 1 Right and left it
\* Left, the new entry having been swapped up into slot 0.
C25_Witness ==
    /\ backend = "WeakHeap"
    /\ call.op = "push"
    /\ Len(call.data) = 2
    /\ At(call.sides, 1) = "Right"
    /\ At(sides, 1) = "Left"
    /\ SwappedSlots = {2}
    /\ At(sides, 2) = "Right"

\* ======================================================================
\* C26  Strict sift-up
\* ======================================================================
\* The slot push compares the new entry with first: its binary parent, or in the
\* weak heap its distinguished ancestor under the side bits push has prepared.
push_ancestor ==
    LET new_index == Len(call.data) IN
    IF backend = "BinaryHeap" THEN (new_index - 1) \div 2
    ELSE distinguished_ancestor(sides_before_swap(1), new_index)

\* C26: in both backends push(owner, p) moves only entries of priority strictly
\* less than p: every existing entry of priority >= p is in the same slot after
\* the push; and if the new entry's ancestor has priority >= p, no existing
\* entry moves and the new entry stays at the last position.
C26_StrictSiftUp ==
    call.op = "push" =>
        /\ \A i \in Displaced : At(call.data, i).priority < call.priority
        /\ \A i \in 0..(Len(call.data) - 1) :
               At(call.data, i).priority >= call.priority
                   => At(data, i) = At(call.data, i)
        /\ (Len(call.data) > 0
              /\ At(call.data, push_ancestor).priority >= call.priority)
               => /\ Displaced = {}
                  /\ At(data, Len(call.data))
                         = HeapEntry(call.outer_pos, call.priority)

\* C26 witness: a push into a weak heap of two entries with the very priority
\* its distinguished ancestor has: nothing moves, the new entry stays in slot 2.
C26_Witness ==
    /\ call.op = "push"
    /\ backend = "WeakHeap"
    /\ Len(call.data) = 2
    /\ At(call.data, push_ancestor).priority = call.priority
    /\ Displaced = {}
    /\ At(data, 2).outer_pos = call.outer_pos

\* ======================================================================
\* C27  Callbacks report final resting places
\* ======================================================================
\* C27: within one push, remove or change_priority on either backend, every
\* callback invocation (owner, position) is still true when the call returns,
\* data[position].owner = owner, and no owner is reported at two different
\* positions during the call.
C27_ReportsAreFinal ==
    call.op \in {"push", "remove", "change_priority"} =>
        /\ \A k \in 1..Len(call.log) :
               /\ call.log[k][2] < Len(data)
               /\ At(data, call.log[k][2]).outer_pos = call.log[k][1]
        /\ \A j, k \in 1..Len(call.log) :
               call.log[j][1] = call.log[k][1] => call.log[j][2] = call.log[k][2]

\* C27 witness: a weak heap call whose sift-down swapped twice, so that the
\* callback was invoked for three owners, the root's entry having changed twice.
C27_Witness ==
    /\ backend = "WeakHeap"
    /\ call.op \in {"remove", "change_priority"}
    /\ Len(call.log) = 3
    /\ Cardinality({call.log[k][1] : k \in 1..3}) = 3
    /\ call.log[3][2] = 0
    /\ call.log[1][3] # data
    /\ At(data, call.log[1][2]).outer_pos = call.log[1][1]

\* ======================================================================
\* C28  Out-of-range asymmetry
\* ======================================================================
\* C28: in both backends change_priority and change_outer_pos with position >=
\* the current length do not return an absent result as remove does: they panic
\* before any entry, priority, owner or side bit is modified and without
\* invoking the callback.
C28_OutOfRangePanics ==
    call.position >= Len(call.data) =>
        /\ call.op \in {"change_priority", "change_outer_pos"}
               => /\ call.result = Panic
                  /\ call.result # None
                  /\ data = call.data
                  /\ sides = call.sides
                  /\ call.log = <<>>
        /\ call.op = "remove"
               => /\ call.result = None
                  /\ data = call.data
                  /\ sides = call.sides

\* C28 witness: change_outer_pos one past the end of a weak heap of three
\* entries panicked.
C28_Witness ==
    /\ backend = "WeakHeap"
    /\ call.op = "change_outer_pos"
    /\ Len(call.data) = 3
    /\ call.position = 4
    /\ call.result = Panic
    /\ data = call.data

\* ======================================================================
\* C29  Termination and index safety
\* ======================================================================
\* The inner loop of heapify_down from current_child_idx, at most fuel
\* iterations of it: the indices at which next_sibling reads a side bit. A walk
\* cut short, its loop not ended when the steps ran out or the index left the
\* side bits, ends with an index past the array.
RECURSIVE walk_down(_, _, _, _)
walk_down(s, len, current_child_idx, fuel) ==
    IF fuel = 0 \/ current_child_idx >= Len(s) THEN <<current_child_idx, len>>
    ELSE LET cand_child_idx == next_sibling(s, current_child_idx) IN
         IF cand_child_idx >= len THEN <<current_child_idx>>
         ELSE <<current_child_idx>> \o walk_down(s, len, cand_child_idx, fuel - 1)

\* The loop of distinguished_ancestor from position, at most fuel iterations of
\* it: the positions it passes through, sides being read at the binary parent
\* of each but slot 0. A walk cut short ends with an index past the array.
RECURSIVE walk_up(_, _, _)
walk_up(s, position, fuel) ==
    IF position = 0 THEN <<position>>
    ELSE IF fuel = 0 \/ position \div 2 >= Len(s) THEN <<position, Len(s)>>
    ELSE LET binary_parent_pos == position \div 2
             is_direct_child ==
                 (position % 2 = 0) = as_bool(At(s, binary_parent_pos))
         IN IF is_direct_child THEN <<position>>
            ELSE <<position>> \o walk_up(s, binary_parent_pos, fuel - 1)

increasing(w) == \A k \in 1..(Len(w) - 1) : w[k] < w[k + 1]
decreasing(w) == \A k \in 1..(Len(w) - 1) : w[k] > w[k + 1]
within(w, len) == \A k \in 1..Len(w) : w[k] >= 0 /\ w[k] < len

\* The calls that can come next, each with what it returns.
NextCalls ==
    {EditableHeap_push(backend, data, sides, 0, priority) :
         priority \in Priorities}
    \cup {EditableHeap_remove(backend, data, sides, position) :
              position \in 0..(Len(data) + 1)}
    \cup {EditableHeap_change_priority(backend, data, sides, position, updated) :
              position \in 0..(Len(data) - 1), updated \in Priorities}

\* Weak heap: from every slot the descent of heapify_down and the climb of
\* distinguished_ancestor end within len steps, move strictly one way and stay
\* inside the arrays.
weak_walks_safe ==
    LET len == Len(data) IN
    /\ Len(sides) = len
    /\ \A position \in 0..(len - 1) :
           LET first_child_idx == first_child(sides, position) IN
           first_child_idx < len =>
               LET w == walk_down(sides, len, first_child_idx, len) IN
               /\ within(w, len)
               /\ increasing(<<position>> \o w)
               /\ next_sibling(sides, w[Len(w)]) >= len
               /\ w[Len(w)] = WeakHeap_max_child_idx(sides, len, first_child_idx)
    /\ \A position \in 1..(len - 1) :
           LET w == walk_up(sides, position, len)
               last == w[Len(w)]
           IN /\ within(w, len)
              /\ decreasing(w)
              /\ last = 0 \/ first_child(sides, last \div 2) = last
              /\ distinguished_ancestor(sides, position) = last \div 2
              /\ distinguished_ancestor(sides, position) < position
    /\ \A pos \in 1..(len - 1) : ignorant_distinguished_ancestor(pos) < pos

\* Binary heap: the parent read by heapify_up and the child read by heapify_down
\* are slots of the array, above and below the position.
binary_walks_safe ==
    LET len == Len(data) IN
    /\ BinaryHeap_heapify_start(data) <= len
    /\ \A position \in 1..(len - 1) :
           (position - 1) \div 2 >= 0 /\ (position - 1) \div 2 < position
    /\ \A position \in 0..(len - 1) :
           position * 2 + 1 < len =>
               /\ BinaryHeap_max_child_idx(data, position) > position
               /\ BinaryHeap_max_child_idx(data, position) < len

\* C29: in every state reachable through the API each call of from_entries_vec,
\* push, remove and change_priority (valid position) on either backend ends
\* after finitely many steps and reads or writes no index >= the length: the
\* weak heap's descent along next_sibling strictly increases the index until it
\* leaves the array, distinguished_ancestor strictly decreases it until a
\* first-child relation or slot 0 is reached, and every call that can come next
\* returns, having invoked the handler a bounded number of times, each time for
\* a slot of the array.
C29_CallsEndInsideTheArray ==
    /\ backend = "WeakHeap" => weak_walks_safe
    /\ backend = "BinaryHeap" => binary_walks_safe
    /\ \A r \in NextCalls :
           /\ Len(r.log) <= Len(r.data) + 1
           /\ \A k \in 1..Len(r.log) :
                  /\ r.log[k][2] < Len(r.log[k][3])
                  /\ Len(r.log[k][3]) = Len(r.data)
           /\ backend = "WeakHeap" => Len(r.sides) = Len(r.data)

\* C29 witness: a weak heap of six entries in which the descent from the
\* root's first child passes three slots, and the climb from some slot passes
\* two binary parents that are its siblings before it finds its ancestor.
C29_Witness ==
    /\ backend = "WeakHeap"
    /\ Len(data) = 6
    /\ Len(walk_down(sides, 6, first_child(sides, 0), 6)) = 3
    /\ \E position \in 1..5 : Len(walk_up(sides, position, 6)) = 3
    /\ \E i \in 1..5 : At(sides, i) = "Right"
    /\ weak_walks_safe

\* ======================================================================
\* C30  Weak heap root side bit
\* ======================================================================
\* C30: in every reachable non-empty state of the weak heap the side bit of slot
\* 0 is Left, so first_child(0) = 1 and slot 1 has distinguished ancestor 0.
C30_RootSideLeft ==
    (backend = "WeakHeap" /\ Len(data) > 0) =>
        /\ At(sides, 0) = "Left"
        /\ first_child(sides, 0) = 1
        /\ Len(data) > 1 => distinguished_ancestor(sides, 1) = 0

\* C30 witness: a weak heap of at least four entries, three or more of whose
\* other side bits have been flipped to Right, with the root's still Left.
C30_Witness ==
    /\ backend = "WeakHeap"
    /\ Len(data) >= 4
    /\ Cardinality({i \in 1..(Len(data) - 1) : At(sides, i) = "Right"}) >= 3
    /\ At(sides, 0) = "Left"
    /\ first_child(sides, 0) = 1

====
